---- MODULE Spec2Model ----
(***************************************************************************)
(* rpi-led-cube: the frame pipeline of src/main.rs (producer loop,         *)
(* rate-limited forwarder thread, render thread) and the CubeDriver of     *)
(* src/cube.rs, as a state machine.                                        *)
(*                                                                         *)
(* Three threads run per session:                                          *)
(*   main     run_routine: pulls frames from the animation source, rotates *)
(*            and inverts them, sends them into sync_channel(64);          *)
(*   fwd      spawn_ratelimited_display's closure: checks the stop token,  *)
(*            receives a frame, hands it to the render thread over         *)
(*            sync_channel(0), sleeps;                                     *)
(*   render   spawn_display's closure: acquires the CubeDriver, then       *)
(*            try_recv / write_frame in a loop; the driver is dropped when *)
(*            the closure returns.                                         *)
(***************************************************************************)
EXTENDS Integers, Sequences, FiniteSets, TLC

(***************************************************************************)
(* Bounds of the model.                                                    *)
(***************************************************************************)
\* The animation source yields at most this many frames before it ends.
MaxFrames == 3

(***************************************************************************)
(* Program constants.                                                      *)
(***************************************************************************)
\* sync_channel(64): capacity of the producer -> forwarder channel.
FORWARD_CAP == 64
\* sync_channel(0): the forwarder -> render channel is a rendezvous channel.
DISPLAY_CAP == 0

Low == 0
High == 1

Idx == 0..7

(***************************************************************************)
(* u8 helpers.                                                             *)
(***************************************************************************)
\* value & (1 << bit) != 0, as 0 or 1
Bit(value, bit) == (value \div (2 ^ bit)) % 2

\* cube.rs check_bit: value & pow2 == 0 -> Low, else High (pow2 a power of two)
check_bit(value, pow2) == IF (value \div pow2) % 2 = 0 THEN Low ELSE High

\* (acc << 1) + bit on u8
ShiftIn(acc, bit) == (((acc * 2) % 256) + bit) % 256

(***************************************************************************)
(* Frames: [[u8; 8]; 8], outer index layer, inner index row.               *)
(***************************************************************************)
\* [[0; 8]; 8]
BlankFrame == [l \in Idx |-> [r \in Idx |-> 0]]

\* routines.rs CycleLayers: the k-th frame (k from 0) of a window of 8 over a
\* cycle of 9 layers, one of which is lit.
CycleLayers(k) == [l \in Idx |-> [r \in Idx |-> IF (8 * k + l) % 9 = 0 THEN 255 ELSE 0]]

\* routines.rs AllOn: repeat([[255; 8]; 8])
AllOn == [l \in Idx |-> [r \in Idx |-> 255]]

\* routines.rs OneOn: frame[layer][row] = 1 << col
OneOn(row, col, layer) ==
    [l \in Idx |-> [r \in Idx |-> IF l = layer /\ r = row THEN 2 ^ col ELSE 0]]

\* routines.rs OneRow: every layer has 255 in row `row`
OneRow(row) == [l \in Idx |-> [r \in Idx |-> IF r = row THEN 255 ELSE 0]]

\* routines.rs OneCol: every row is 1 << col
OneCol(col) == [l \in Idx |-> [r \in Idx |-> 2 ^ col]]

\* routines.rs OneLayer: layer `which` is [255; 8], the others [0; 8]
OneLayer(which) == [l \in Idx |-> [r \in Idx |-> IF l = which THEN 255 ELSE 0]]

\* fold over bytes[0..7]: acc = (acc << 1) + (e & (1 << bit) != 0)
RECURSIVE FoldBits(_, _, _, _)
FoldBits(bytes, bit, i, acc) ==
    IF i > 7 THEN acc
    ELSE FoldBits(bytes, bit, i + 1, ShiftIn(acc, Bit(bytes[i], bit)))

\* Variant of apply whose K branch folds the layer indexed by `row` and tests
\* the bit indexed by `layer`.
apply_K_swapped(rot, data) ==
    CASE rot = "None" -> data
      [] rot = "I" -> [layer \in Idx |-> [row \in Idx |->
                         FoldBits([l \in Idx |-> data[l][row]], layer, 0, 0)]]
      [] rot = "J" -> [layer \in Idx |-> [row \in Idx |-> data[row][7 - layer]]]
      [] rot = "K" -> [layer \in Idx |-> [row \in Idx |->
                         FoldBits(data[row], layer, 0, 0)]]

\* Variant of apply whose I branch builds the row least-significant bit first.
apply_I_lsb_first(rot, data) ==
    CASE rot = "None" -> data
      [] rot = "I" -> [layer \in Idx |-> [row \in Idx |->
                         FoldBits([l \in Idx |-> data[7 - l][row]], layer, 0, 0)]]
      [] rot = "J" -> [layer \in Idx |-> [row \in Idx |-> data[row][7 - layer]]]
      [] rot = "K" -> [layer \in Idx |-> [row \in Idx |->
                         FoldBits(data[layer], row, 0, 0)]]

\* Variant of apply whose J branch turns the other way.
apply_J_reversed(rot, data) ==
    CASE rot = "None" -> data
      [] rot = "I" -> [layer \in Idx |-> [row \in Idx |->
                         FoldBits([l \in Idx |-> data[l][row]], layer, 0, 0)]]
      [] rot = "J" -> [layer \in Idx |-> [row \in Idx |-> data[7 - row][layer]]]
      [] rot = "K" -> [layer \in Idx |-> [row \in Idx |->
                         FoldBits(data[layer], row, 0, 0)]]

\* Variant of apply whose I and K branches are exchanged.
apply_axes_exchanged(rot, data) ==
    CASE rot = "None" -> data
      [] rot = "K" -> [layer \in Idx |-> [row \in Idx |->
                         FoldBits([l \in Idx |-> data[l][row]], layer, 0, 0)]]
      [] rot = "J" -> [layer \in Idx |-> [row \in Idx |-> data[row][7 - layer]]]
      [] rot = "I" -> [layer \in Idx |-> [row \in Idx |->
                         FoldBits(data[layer], row, 0, 0)]]

\* main.rs Rotation::apply
apply(rot, data) ==
    CASE rot = "None" -> data
      [] rot = "I" -> [layer \in Idx |-> [row \in Idx |->
                         FoldBits([l \in Idx |-> data[l][row]], layer, 0, 0)]]
      [] rot = "J" -> [layer \in Idx |-> [row \in Idx |-> data[row][7 - layer]]]
      [] rot = "K" -> [layer \in Idx |-> [row \in Idx |->
                         FoldBits(data[layer], row, 0, 0)]]

\* rotated.map(|layer| layer.map(|row| row ^ 0xff))
InvertFrame(f) == [l \in Idx |-> [r \in Idx |-> 255 - f[l][r]]]

\* run_routine: rotate, then invert when asked
Transform(rot, inv, f) == IF inv THEN InvertFrame(apply(rot, f)) ELSE apply(rot, f)

Rotations == {"None", "I", "J", "K"}

\* The command lines tried: (--rotate, --invert)
Configs == {<<"None", FALSE>>, <<"I", TRUE>>}

(***************************************************************************)
(* CubeDriver: the last level written to each output line.                 *)
(***************************************************************************)
\* The lines before anything has been written.
NoPins ==
    [par_1 |-> Low, par_2 |-> Low, par_3 |-> Low, par_4 |-> Low,
     par_5 |-> Low, par_6 |-> Low, par_7 |-> Low, par_8 |-> Low,
     par_rclk |-> Low, par_srclk |-> Low, par_srclr |-> Low,
     layer_sel_bit_0 |-> Low, layer_sel_bit_1 |-> Low, layer_sel_bit_2 |-> Low,
     out_enable |-> Low]

\* CubeDriver::try_new on success: into_output_low / into_output_high, then the
\* clear pulse (srclr low, then high).
try_new ==
    LET p0 == [NoPins EXCEPT !.out_enable = High]
        p1 == [p0 EXCEPT !.par_srclr = Low]
        p2 == [p1 EXCEPT !.par_srclr = High]
    IN p2

\* CubeDriver::set_layer
set_layer(p, layer) ==
    [p EXCEPT !.layer_sel_bit_0 = check_bit(layer, 1),
              !.layer_sel_bit_1 = check_bit(layer, 2),
              !.layer_sel_bit_2 = check_bit(layer, 4)]

\* CubeDriver::write_row: data lines, then the shift clock high, then low
write_row(p, pattern) ==
    LET p1 == [p EXCEPT !.par_1 = check_bit(pattern, 1),
                        !.par_2 = check_bit(pattern, 2),
                        !.par_3 = check_bit(pattern, 4),
                        !.par_4 = check_bit(pattern, 8),
                        !.par_5 = check_bit(pattern, 16),
                        !.par_6 = check_bit(pattern, 32),
                        !.par_7 = check_bit(pattern, 64),
                        !.par_8 = check_bit(pattern, 128)]
        p2 == [p1 EXCEPT !.par_srclk = High]
        p3 == [p2 EXCEPT !.par_srclk = Low]
    IN p3

RECURSIVE write_rows(_, _, _)
write_rows(p, rows, i) ==
    IF i > 7 THEN p ELSE write_rows(write_row(p, rows[i]), rows, i + 1)

\* CubeDriver::write_layer
write_layer(p, layer, rows) ==
    LET p1 == write_rows(p, rows, 0)
        p2 == [p1 EXCEPT !.out_enable = High]
        p3 == [p2 EXCEPT !.par_rclk = High]
        p4 == set_layer(p3, layer)
        p5 == [p4 EXCEPT !.par_rclk = Low]
        p6 == [p5 EXCEPT !.out_enable = Low]
    IN p6

\* Variant of drop_driver that leaves out out_enable.set_high().
drop_driver_output_left_on(p) ==
    [p EXCEPT !.layer_sel_bit_0 = Low, !.layer_sel_bit_1 = Low,
              !.layer_sel_bit_2 = Low,
              !.par_1 = Low, !.par_2 = Low, !.par_3 = Low, !.par_4 = Low,
              !.par_5 = Low, !.par_6 = Low, !.par_7 = Low, !.par_8 = Low,
              !.par_rclk = Low, !.par_srclk = Low, !.par_srclr = Low]

\* impl Drop for CubeDriver
drop_driver(p) ==
    [p EXCEPT !.layer_sel_bit_0 = Low, !.layer_sel_bit_1 = Low,
              !.layer_sel_bit_2 = Low, !.out_enable = High,
              !.par_1 = Low, !.par_2 = Low, !.par_3 = Low, !.par_4 = Low,
              !.par_5 = Low, !.par_6 = Low, !.par_7 = Low, !.par_8 = Low,
              !.par_rclk = Low, !.par_srclk = Low, !.par_srclr = Low]

(***************************************************************************)
(* State.                                                                  *)
(***************************************************************************)
VARIABLES
    rotate,          \* run_routine's rotate argument
    invert,          \* run_routine's invert argument
    stop_token,      \* Arc<AtomicBool> set by the ctrl-c handler
    stalled,         \* the animation source blocks in next() and never returns
    source_len,      \* the source has ended once it has yielded this many
    produced,        \* number of frames the source has yielded
    main_pc,         \* position of run_routine
    main_frame,      \* run_routine's `inverted`
    main_tx,         \* run_routine's `sender` is alive
    queue,           \* buffer of sync_channel(64)
    fwd_rx,          \* the forwarder's `rx` is alive
    fwd_pc,          \* position of the forwarder closure
    fwd_frame,       \* the forwarder's `frame`
    fwd_tx,          \* the forwarder's `sender` is alive
    fwd_result,      \* what the forwarder closure returned
    mailbox,         \* sync_channel(0): the frame of a sender blocked in send
    disp_rx,         \* the render closure's `rx` is alive
    render_pc,       \* position of the render closure
    layer,           \* write_frame's loop index
    curr_frame,      \* the render closure's `curr_frame`
    driver,          \* "none", "live", "dropped" or "failed"
    pins,            \* last level written to each line of the CubeDriver
    render_result,   \* what the render closure returned
    stderr,          \* lines written by eprintln!
    sleeps,          \* history: sleeps the forwarder has completed since its
                     \*   last successful hand-off
    exit_status,     \* process exit status once main has returned
    sent,            \* history: frames run_routine has put into the channel
    handed,          \* history: frames the render loop has received
    handedAfterStop  \* history: how many of them it received after the stop

\* Rotation::apply called on its own
VARIABLES
    rot_self,        \* the Rotation `self`
    rot_frame,       \* the frame the calls started from
    rot_data,        \* the result of the calls made so far
    rot_calls        \* number of calls made so far

rotVars == <<rot_self, rot_frame, rot_data, rot_calls>>

\* A CubeDriver used on its own, one line write at a time
VARIABLES
    cube_pc,         \* position inside try_new, write_frame or drop
    cube_pins,       \* last level written to each line
    cube_data,       \* write_frame's `data`
    cube_layer,      \* write_frame's `layer`
    cube_row,        \* write_layer's position in `rows`
    cube_k,          \* position in a run of line writes
    cube_calls,      \* number of write_frame calls begun
    shifted,         \* history: data-line bytes at the rising edges of
                     \*   par_srclk since write_layer was entered
    latched,         \* history: rising edges of par_rclk since then
    sel_writes,      \* history: layer-select lines written since then
    strobed,         \* history: layers held since write_frame was entered
    shift_reg,       \* hardware: the bytes in the shift registers, oldest first
    out_reg,         \* hardware: the bytes in the output register
    latch_frame,     \* history: write_frame's `data` at the last latch edge
    ops,             \* history: line operations and sleeps of this write_frame
    ops_prev,        \* history: those of the write_frame call before it
    data_prev,       \* history: `data` of the write_frame call before it
    srclr_hist       \* history: levels written to par_srclr

cubeVars == <<cube_pc, cube_pins, cube_data, cube_layer, cube_row, cube_k,
              cube_calls, shifted, latched, sel_writes, strobed, srclr_hist,
              shift_reg, out_reg, latch_frame, ops, ops_prev, data_prev>>

\* The Listener program's frame source, consumed by run_routine's loop
VARIABLES
    stdin_lines,     \* what stdin().lines() yields, in order, up to end of file
    lst_pos,         \* number of lines read so far
    lst_pc,          \* position of run_routine's loop
    lst_frame,       \* the loop's `frame`
    lst_sent,        \* history: frames put into the channel
    lst_skipped,     \* history: number of lines that yielded no frame
    lst_failed       \* history: sender.send returned Err

lstVars == <<stdin_lines, lst_pos, lst_pc, lst_frame, lst_sent, lst_skipped,
             lst_failed>>

\* The Traveller program's frame source, stepped on its own
VARIABLES
    trav_pc,         \* "unused", "run", or "panicked"
    last_x,          \* Traveller's fields
    last_y,
    last_z,
    current_x,
    current_y,
    current_z,
    trav_frame,      \* the frame the last call of next() returned
    trav_before,     \* history: <<last_x, last_y, last_z>> before the last call
    trav_calls       \* history: calls of next() made, counted up to MaxTravCalls

travVars == <<trav_pc, last_x, last_y, last_z, current_x, current_y, current_z,
              trav_frame, trav_before, trav_calls>>

auxVars == <<rotVars, cubeVars, lstVars, travVars>>

vars == <<rotate, invert, stop_token, stalled, source_len, produced, main_pc,
          main_frame,
          main_tx, queue, fwd_rx, fwd_pc, fwd_frame, fwd_tx, fwd_result,
          mailbox, disp_rx, render_pc, layer, curr_frame, driver, pins,
          render_result, stderr, exit_status, sent, handed, handedAfterStop,
          sleeps, auxVars>>

pipeVars == <<rotate, invert, stop_token, stalled, source_len, produced, main_pc,
              main_frame, main_tx, queue, fwd_rx, fwd_pc, fwd_frame, fwd_tx,
              fwd_result, mailbox, disp_rx, render_pc, layer, curr_frame,
              driver, pins, render_result, stderr, exit_status, sent, handed,
              handedAfterStop, sleeps>>

mainVars == <<produced, main_pc, main_frame, main_tx, exit_status, sent>>
fwdVars == <<fwd_rx, fwd_pc, fwd_frame, fwd_tx, fwd_result, stderr, sleeps>>
renderVars == <<disp_rx, render_pc, layer, curr_frame, driver, pins,
                render_result, handed, handedAfterStop>>
envVars == <<rotate, invert, stop_token, stalled, source_len>>

\* main() up to the call of run_routine, and run_routine's call of
\* spawn_ratelimited_display: the forwarder thread exists, nothing has run.
PipeStart ==
    /\ stop_token = FALSE
    /\ stalled = FALSE
    /\ produced = 0
    /\ main_pc = "next"
    /\ main_frame = BlankFrame
    /\ main_tx = TRUE
    /\ queue = <<>>
    /\ fwd_rx = TRUE
    /\ fwd_pc = "spawn"
    /\ fwd_frame = BlankFrame
    /\ fwd_tx = FALSE
    /\ fwd_result = "none"
    /\ mailbox = <<>>
    /\ disp_rx = FALSE
    /\ render_pc = "unspawned"
    /\ layer = 0
    /\ curr_frame = BlankFrame
    /\ driver = "none"
    /\ pins = NoPins
    /\ render_result = "none"
    /\ stderr = <<>>
    /\ exit_status = -1
    /\ sent = <<>>
    /\ handed = <<>>
    /\ handedAfterStop = 0
    /\ sleeps = 0

\* A session with one of the command lines tried and a source of at most
\* MaxFrames frames.
PipeInit ==
    /\ \E c \in Configs : rotate = c[1] /\ invert = c[2]
    /\ source_len = MaxFrames
    /\ PipeStart

\* No call of Rotation::apply on its own is in progress.
RotIdle ==
    /\ rot_self = "None"
    /\ rot_frame = BlankFrame
    /\ rot_data = BlankFrame
    /\ rot_calls = 0

\* Shift registers after a clear: par_srclr low zeroes their content.
ZeroReg == [i \in 1..8 |-> 0]

\* No CubeDriver is used on its own.
CubeIdle ==
    /\ shift_reg = ZeroReg
    /\ out_reg = ZeroReg
    /\ latch_frame = <<>>
    /\ ops = <<>>
    /\ ops_prev = <<>>
    /\ data_prev = BlankFrame
    /\ cube_pc = "unused"
    /\ cube_pins = NoPins
    /\ cube_data = BlankFrame
    /\ cube_layer = 0
    /\ cube_row = 0
    /\ cube_k = 0
    /\ cube_calls = 0
    /\ shifted = <<>>
    /\ latched = 0
    /\ sel_writes = 0
    /\ strobed = <<>>
    /\ srclr_hist = <<>>

\* The Listener's source is not read.
LstIdle ==
    /\ stdin_lines = <<>>
    /\ lst_pos = 0
    /\ lst_pc = "unused"
    /\ lst_frame = BlankFrame
    /\ lst_sent = <<>>
    /\ lst_skipped = 0
    /\ lst_failed = FALSE

\* No Traveller is stepped on its own.
TravIdle ==
    /\ trav_pc = "unused"
    /\ last_x = 4
    /\ last_y = 4
    /\ last_z = 4
    /\ current_x = 4
    /\ current_y = 4
    /\ current_z = 3
    /\ trav_frame = BlankFrame
    /\ trav_before = <<>>
    /\ trav_calls = 0

Init == PipeInit /\ RotIdle /\ CubeIdle /\ LstIdle /\ TravIdle

\* The pipeline is not run: its variables stay at their first values.
PipeIdle == PipeInit /\ rotate = "None" /\ invert = FALSE

(***************************************************************************)
(* Environment.                                                            *)
(***************************************************************************)
\* main.rs ctrlc handler: stop_token_clone.store(true)
SetStop ==
    /\ main_pc # "done"
    /\ ~stop_token
    /\ stop_token' = TRUE
    /\ UNCHANGED <<rotate, invert, stalled, source_len>>
    /\ UNCHANGED <<auxVars, mainVars, fwdVars, renderVars, queue, mailbox>>

\* The source blocks for good (Listener: stdin().lines() with no further
\* line and no end of file).
SourceStall ==
    /\ main_pc = "next"
    /\ ~stalled
    /\ stalled' = TRUE
    /\ UNCHANGED <<rotate, invert, stop_token, source_len>>
    /\ UNCHANGED <<auxVars, mainVars, fwdVars, renderVars, queue, mailbox>>

(***************************************************************************)
(* run_routine (main thread).                                              *)
(***************************************************************************)
\* for frame in frames { rotate.apply; invert } : the iterator's next()
MainNext ==
    /\ main_pc = "next"
    /\ ~stalled
    /\ \/ /\ produced < source_len
          /\ main_frame' = Transform(rotate, invert, CycleLayers(produced))
          /\ produced' = produced + 1
          /\ main_pc' = "send"
       \/ /\ main_pc' = "drop"
          /\ UNCHANGED <<main_frame, produced>>
    /\ UNCHANGED <<main_tx, exit_status, sent>>
    /\ UNCHANGED <<auxVars, envVars, fwdVars, renderVars, queue, mailbox>>

\* Variant of MainSend that discards the frame when the channel is full.
MainSendDropsWhenFull ==
    /\ main_pc = "send"
    /\ \/ /\ ~fwd_rx
          /\ main_pc' = "drop"
          /\ UNCHANGED <<queue, sent>>
       \/ /\ fwd_rx
          /\ Len(queue) < FORWARD_CAP
          /\ queue' = Append(queue, main_frame)
          /\ sent' = Append(sent, main_frame)
          /\ main_pc' = "next"
       \/ /\ fwd_rx
          /\ Len(queue) = FORWARD_CAP
          /\ main_pc' = "next"
          /\ UNCHANGED <<queue, sent>>
    /\ UNCHANGED <<produced, main_frame, main_tx, exit_status>>
    /\ UNCHANGED <<auxVars, envVars, fwdVars, renderVars, mailbox>>

\* if sender.send(inverted).is_err() { break; }
MainSend ==
    /\ main_pc = "send"
    /\ \/ /\ ~fwd_rx
          /\ main_pc' = "drop"
          /\ UNCHANGED <<queue, sent>>
       \/ /\ fwd_rx
          /\ Len(queue) < FORWARD_CAP
          /\ queue' = Append(queue, main_frame)
          /\ sent' = Append(sent, main_frame)
          /\ main_pc' = "next"
    /\ UNCHANGED <<produced, main_frame, main_tx, exit_status>>
    /\ UNCHANGED <<auxVars, envVars, fwdVars, renderVars, mailbox>>

\* drop(sender)
MainDrop ==
    /\ main_pc = "drop"
    /\ main_tx' = FALSE
    /\ main_pc' = "join"
    /\ UNCHANGED <<produced, main_frame, exit_status, sent>>
    /\ UNCHANGED <<auxVars, envVars, fwdVars, renderVars, queue, mailbox>>

\* let _ = handle.join().expect(..); run_routine and main return
MainJoin ==
    /\ main_pc = "join"
    /\ fwd_pc = "done"
    /\ main_pc' = "done"
    /\ exit_status' = 0
    /\ UNCHANGED <<produced, main_frame, main_tx, sent>>
    /\ UNCHANGED <<auxVars, envVars, fwdVars, renderVars, queue, mailbox>>

Main == MainNext \/ MainSend \/ MainDrop \/ MainJoin

(***************************************************************************)
(* spawn_ratelimited_display's closure (forwarder thread).                 *)
(***************************************************************************)
\* let (sender, handle) = spawn_display();
FwdSpawn ==
    /\ fwd_pc = "spawn"
    /\ fwd_tx' = TRUE
    /\ disp_rx' = TRUE
    /\ render_pc' = "new"
    /\ fwd_pc' = "check"
    /\ UNCHANGED <<fwd_rx, fwd_frame, fwd_result, stderr>>
    /\ UNCHANGED <<layer, curr_frame, driver, pins, render_result, handed,
                   handedAfterStop>>
    /\ UNCHANGED <<auxVars, envVars, mainVars, queue, mailbox>>
    /\ UNCHANGED sleeps

\* Variant of FwdCheck that never looks at the stop token.
FwdCheckIgnoresStop ==
    /\ fwd_pc = "check"
    /\ fwd_pc' = "recv"
    /\ UNCHANGED <<fwd_rx, fwd_frame, fwd_tx, fwd_result, stderr>>
    /\ UNCHANGED <<auxVars, envVars, mainVars, renderVars, queue, mailbox>>
    /\ UNCHANGED sleeps

\* if stop_token.load(Ordering::Relaxed) { break; }
FwdCheck ==
    /\ fwd_pc = "check"
    /\ fwd_pc' = IF stop_token THEN "drop" ELSE "recv"
    /\ UNCHANGED <<fwd_rx, fwd_frame, fwd_tx, fwd_result, stderr>>
    /\ UNCHANGED <<auxVars, envVars, mainVars, renderVars, queue, mailbox>>
    /\ UNCHANGED sleeps

\* Variant of FwdRecv that reports RecvError as soon as the sender is gone,
\* with frames still buffered.
FwdRecvDropsBuffered ==
    /\ fwd_pc = "recv"
    /\ \/ /\ queue # <<>>
          /\ main_tx
          /\ fwd_frame' = Head(queue)
          /\ queue' = Tail(queue)
          /\ fwd_pc' = "send"
       \/ /\ ~main_tx
          /\ fwd_pc' = "drop"
          /\ UNCHANGED <<fwd_frame, queue>>
    /\ UNCHANGED <<fwd_rx, fwd_tx, fwd_result, stderr>>
    /\ UNCHANGED <<auxVars, envVars, mainVars, renderVars, mailbox>>
    /\ UNCHANGED sleeps

\* let maybe_frame = rx.recv();  Err(RecvError) => break
FwdRecv ==
    /\ fwd_pc = "recv"
    /\ \/ /\ queue # <<>>
          /\ fwd_frame' = Head(queue)
          /\ queue' = Tail(queue)
          /\ fwd_pc' = "send"
       \/ /\ queue = <<>>
          /\ ~main_tx
          /\ fwd_pc' = "drop"
          /\ UNCHANGED <<fwd_frame, queue>>
    /\ UNCHANGED <<fwd_rx, fwd_tx, fwd_result, stderr>>
    /\ UNCHANGED <<auxVars, envVars, mainVars, renderVars, mailbox>>
    /\ UNCHANGED sleeps

\* Variant of FwdSend on a buffered channel: the frame is queued and send
\* returns without waiting for the receiver.
FwdSendBuffered ==
    /\ fwd_pc = "send"
    /\ \/ /\ ~disp_rx
          /\ stderr' = Append(stderr, "Failed to hand off layer")
          /\ fwd_pc' = "drop"
          /\ UNCHANGED <<mailbox, sleeps>>
       \/ /\ disp_rx
          /\ mailbox' = Append(mailbox, fwd_frame)
          /\ fwd_pc' = "sleep"
          /\ sleeps' = 0
          /\ UNCHANGED stderr
    /\ UNCHANGED <<fwd_rx, fwd_frame, fwd_tx, fwd_result>>
    /\ UNCHANGED <<auxVars, envVars, mainVars, renderVars, queue>>

\* sender.send(frame), entry: an error at once when the receiver is gone,
\* otherwise the frame is offered and the thread blocks.
FwdSend ==
    /\ fwd_pc = "send"
    /\ \/ /\ ~disp_rx
          /\ stderr' = Append(stderr, "Failed to hand off layer")
          /\ fwd_pc' = "drop"
          /\ UNCHANGED mailbox
       \/ /\ disp_rx
          /\ mailbox' = Append(mailbox, fwd_frame)
          /\ fwd_pc' = "sending"
          /\ UNCHANGED stderr
    /\ UNCHANGED <<fwd_rx, fwd_frame, fwd_tx, fwd_result>>
    /\ UNCHANGED <<auxVars, envVars, mainVars, renderVars, queue>>
    /\ UNCHANGED sleeps

\* Variant of FwdSent that goes straight back to the stop check after a
\* successful hand-off.
FwdSentNoSleep ==
    /\ fwd_pc = "sending"
    /\ \/ /\ Len(mailbox) <= DISPLAY_CAP
          /\ fwd_pc' = "check"
          /\ sleeps' = 0
          /\ UNCHANGED <<mailbox, stderr>>
       \/ /\ Len(mailbox) > DISPLAY_CAP
          /\ ~disp_rx
          /\ mailbox' = <<>>
          /\ stderr' = Append(stderr, "Failed to hand off layer")
          /\ fwd_pc' = "drop"
          /\ UNCHANGED sleeps
    /\ UNCHANGED <<fwd_rx, fwd_frame, fwd_tx, fwd_result>>
    /\ UNCHANGED <<auxVars, envVars, mainVars, renderVars, queue>>

\* sender.send(frame), return: Ok once the receiver has taken the frame, Err
\* when the receiver was dropped first.
FwdSent ==
    /\ fwd_pc = "sending"
    /\ \/ /\ Len(mailbox) <= DISPLAY_CAP
          /\ fwd_pc' = "sleep"
          /\ sleeps' = 0
          /\ UNCHANGED <<mailbox, stderr>>
       \/ /\ Len(mailbox) > DISPLAY_CAP
          /\ ~disp_rx
          /\ mailbox' = <<>>
          /\ stderr' = Append(stderr, "Failed to hand off layer")
          /\ fwd_pc' = "drop"
          /\ UNCHANGED sleeps
    /\ UNCHANGED <<fwd_rx, fwd_frame, fwd_tx, fwd_result>>
    /\ UNCHANGED <<auxVars, envVars, mainVars, renderVars, queue>>

\* thread::sleep(frame_sleep);
FwdSleep ==
    /\ fwd_pc = "sleep"
    /\ fwd_pc' = "check"
    /\ sleeps' = sleeps + 1
    /\ UNCHANGED <<fwd_rx, fwd_frame, fwd_tx, fwd_result, stderr>>
    /\ UNCHANGED <<auxVars, envVars, mainVars, renderVars, queue, mailbox>>

\* drop(sender);
FwdDrop ==
    /\ fwd_pc = "drop"
    /\ fwd_tx' = FALSE
    /\ fwd_pc' = "join"
    /\ UNCHANGED <<fwd_rx, fwd_frame, fwd_result, stderr>>
    /\ UNCHANGED <<auxVars, envVars, mainVars, renderVars, queue, mailbox>>
    /\ UNCHANGED sleeps

\* Variant of FwdJoin that returns without waiting for the render thread.
FwdJoinNoWait ==
    /\ fwd_pc = "join"
    /\ fwd_result' = render_result
    /\ fwd_rx' = FALSE
    /\ fwd_pc' = "done"
    /\ UNCHANGED <<fwd_frame, fwd_tx, stderr>>
    /\ UNCHANGED <<auxVars, envVars, mainVars, renderVars, queue, mailbox>>
    /\ UNCHANGED sleeps

\* handle.join().expect(..): the closure returns the render thread's result
\* and its captured rx is dropped.
FwdJoin ==
    /\ fwd_pc = "join"
    /\ render_pc = "done"
    /\ fwd_result' = render_result
    /\ fwd_rx' = FALSE
    /\ fwd_pc' = "done"
    /\ UNCHANGED <<fwd_frame, fwd_tx, stderr>>
    /\ UNCHANGED <<auxVars, envVars, mainVars, renderVars, queue, mailbox>>
    /\ UNCHANGED sleeps

Forwarder ==
    FwdSpawn \/ FwdCheck \/ FwdRecv \/ FwdSend \/ FwdSent \/ FwdSleep
    \/ FwdDrop \/ FwdJoin

(***************************************************************************)
(* spawn_display's closure (render thread).                                *)
(***************************************************************************)
\* let mut driver = CubeDriver::try_new()?;  let mut curr_frame = [[0; 8]; 8];
RenderTryNew ==
    /\ render_pc = "new"
    /\ \/ /\ driver' = "live"
          /\ pins' = try_new
          /\ curr_frame' = BlankFrame
          /\ render_pc' = "loop"
          /\ UNCHANGED <<render_result, disp_rx>>
       \/ /\ driver' = "failed"
          /\ render_result' = "Err"
          /\ disp_rx' = FALSE
          /\ render_pc' = "done"
          /\ UNCHANGED <<pins, curr_frame>>
    /\ UNCHANGED <<layer, handed, handedAfterStop>>
    /\ UNCHANGED <<auxVars, envVars, mainVars, fwdVars, queue, mailbox>>

\* Variant of RenderTryRecv that blanks curr_frame when no frame has arrived.
RenderTryRecvBlanksOnEmpty ==
    /\ render_pc = "loop"
    /\ \/ /\ mailbox # <<>>
          /\ curr_frame' = Head(mailbox)
          /\ mailbox' = Tail(mailbox)
          /\ handed' = Append(handed, Head(mailbox))
          /\ handedAfterStop' = handedAfterStop + (IF stop_token THEN 1 ELSE 0)
          /\ render_pc' = "write"
       \/ /\ mailbox = <<>>
          /\ ~fwd_tx
          /\ render_pc' = "exit"
          /\ UNCHANGED <<curr_frame, mailbox, handed, handedAfterStop>>
       \/ /\ mailbox = <<>>
          /\ fwd_tx
          /\ curr_frame' = BlankFrame
          /\ render_pc' = "write"
          /\ UNCHANGED <<mailbox, handed, handedAfterStop>>
    /\ layer' = 0
    /\ UNCHANGED <<disp_rx, driver, pins, render_result>>
    /\ UNCHANGED <<auxVars, envVars, mainVars, fwdVars, queue>>

\* Variant of RenderTryRecv that breaks on any Err, Empty included.
RenderTryRecvBreaksOnEmpty ==
    /\ render_pc = "loop"
    /\ \/ /\ mailbox # <<>>
          /\ curr_frame' = Head(mailbox)
          /\ mailbox' = Tail(mailbox)
          /\ handed' = Append(handed, Head(mailbox))
          /\ handedAfterStop' = handedAfterStop + (IF stop_token THEN 1 ELSE 0)
          /\ render_pc' = "write"
       \/ /\ mailbox = <<>>
          /\ render_pc' = "exit"
          /\ UNCHANGED <<curr_frame, mailbox, handed, handedAfterStop>>
    /\ layer' = 0
    /\ UNCHANGED <<disp_rx, driver, pins, render_result>>
    /\ UNCHANGED <<auxVars, envVars, mainVars, fwdVars, queue>>

\* rx.try_recv(): Ok(frame) / Err(Disconnected) => break / Err(Empty);
\* then the call of write_frame(curr_frame)
RenderTryRecv ==
    /\ render_pc = "loop"
    /\ \/ /\ mailbox # <<>>
          /\ curr_frame' = Head(mailbox)
          /\ mailbox' = Tail(mailbox)
          /\ handed' = Append(handed, Head(mailbox))
          /\ handedAfterStop' = handedAfterStop + (IF stop_token THEN 1 ELSE 0)
          /\ render_pc' = "write"
       \/ /\ mailbox = <<>>
          /\ ~fwd_tx
          /\ render_pc' = "exit"
          /\ UNCHANGED <<curr_frame, mailbox, handed, handedAfterStop>>
       \/ /\ mailbox = <<>>
          /\ fwd_tx
          /\ render_pc' = "write"
          /\ UNCHANGED <<curr_frame, mailbox, handed, handedAfterStop>>
    /\ layer' = 0
    /\ UNCHANGED <<disp_rx, driver, pins, render_result>>
    /\ UNCHANGED <<auxVars, envVars, mainVars, fwdVars, queue>>

\* Variant of RenderWriteLayer whose loop ends one layer early (layers 0..6).
RenderWriteLayerStopsEarly ==
    /\ render_pc = "write"
    /\ pins' = write_layer(pins, layer, curr_frame[layer])
    /\ IF layer = 6
          THEN /\ render_pc' = "loop"
               /\ layer' = 0
          ELSE /\ layer' = layer + 1
               /\ UNCHANGED render_pc
    /\ UNCHANGED <<disp_rx, curr_frame, driver, render_result, handed,
                   handedAfterStop>>
    /\ UNCHANGED <<auxVars, envVars, mainVars, fwdVars, queue, mailbox>>

\* Variant of RenderWriteLayer that gives the sweep up as soon as the sender
\* is gone.
RenderWriteLayerAbortsOnClose ==
    /\ render_pc = "write"
    /\ pins' = write_layer(pins, layer, curr_frame[layer])
    /\ IF ~fwd_tx
          THEN /\ render_pc' = "exit"
               /\ layer' = 0
          ELSE IF layer = 7
                  THEN /\ render_pc' = "loop"
                       /\ layer' = 0
                  ELSE /\ layer' = layer + 1
                       /\ UNCHANGED render_pc
    /\ UNCHANGED <<disp_rx, curr_frame, driver, render_result, handed,
                   handedAfterStop>>
    /\ UNCHANGED <<auxVars, envVars, mainVars, fwdVars, queue, mailbox>>

\* write_frame: one iteration, write_layer(layer, rows) and the strobe sleep
RenderWriteLayer ==
    /\ render_pc = "write"
    /\ pins' = write_layer(pins, layer, curr_frame[layer])
    /\ IF layer = 7
          THEN /\ render_pc' = "loop"
               /\ layer' = 0
          ELSE /\ layer' = layer + 1
               /\ UNCHANGED render_pc
    /\ UNCHANGED <<disp_rx, curr_frame, driver, render_result, handed,
                   handedAfterStop>>
    /\ UNCHANGED <<auxVars, envVars, mainVars, fwdVars, queue, mailbox>>

\* Ok(()): the closure returns, driver (Drop for CubeDriver) and rx are dropped
RenderReturn ==
    /\ render_pc = "exit"
    /\ pins' = drop_driver(pins)
    /\ driver' = "dropped"
    /\ render_result' = "Ok"
    /\ disp_rx' = FALSE
    /\ render_pc' = "done"
    /\ UNCHANGED <<layer, curr_frame, handed, handedAfterStop>>
    /\ UNCHANGED <<auxVars, envVars, mainVars, fwdVars, queue, mailbox>>

Render == RenderTryNew \/ RenderTryRecv \/ RenderWriteLayer \/ RenderReturn

Next == SetStop \/ SourceStall \/ Main \/ Forwarder \/ Render

Spec == Init /\ [][Next]_vars

\* The three threads are scheduled by the operating system: each keeps taking
\* steps while it can.  The ctrl-c handler and the source stalling are not forced.
FairSpec ==
    Spec /\ WF_vars(Main) /\ WF_vars(Forwarder) /\ WF_vars(Render)

(***************************************************************************)
(* The sessions of Spec, and next to them a session whose source yields two *)
(* frames more than the producer -> forwarder channel holds, so that the    *)
(* channel fills.  In that long session the stop token stays clear, the     *)
(* source does not stall, and the render thread is not scheduled: it is     *)
(* still inside CubeDriver::try_new, so the forwarder's first hand-off      *)
(* waits and the producer runs ahead.                                       *)
(***************************************************************************)
MaxBurst == FORWARD_CAP + 2

BurstInit ==
    /\ rotate = "I"
    /\ invert = TRUE
    /\ source_len = MaxBurst
    /\ PipeStart
    /\ RotIdle
    /\ CubeIdle
    /\ LstIdle
    /\ TravIdle

QueueInit == Init \/ BurstInit

QueueNext ==
    \/ source_len = MaxFrames /\ Next
    \/ source_len = MaxBurst /\ (Main \/ Forwarder)

QueueSpec == QueueInit /\ [][QueueNext]_vars

(***************************************************************************)
(* Rotation::apply on its own: a rotation is picked, a frame is picked, and *)
(* apply is called on its own result up to MaxApply times.                  *)
(***************************************************************************)
MaxApply == 4

\* The frames tried: every single-LED frame, the full rows, columns and
\* layers, the frames of the Cycle program, all on and all off.
RotFrames ==
    {OneOn(r, c, l) : r \in Idx, c \in Idx, l \in Idx}
        \cup {OneRow(i) : i \in Idx} \cup {OneCol(i) : i \in Idx}
        \cup {OneLayer(i) : i \in Idx} \cup {CycleLayers(k) : k \in 0..8}
        \cup {AllOn, BlankFrame}

RotInit ==
    /\ PipeIdle
    /\ CubeIdle
    /\ LstIdle
    /\ TravIdle
    /\ rot_self \in Rotations
    /\ rot_frame \in RotFrames
    /\ rot_data = rot_frame
    /\ rot_calls = 0

\* rotate.apply(&frame), called on the result of the call before
RotApply ==
    /\ rot_calls < MaxApply
    /\ rot_data' = apply(rot_self, rot_data)
    /\ rot_calls' = rot_calls + 1
    /\ UNCHANGED <<rot_self, rot_frame>>
    /\ UNCHANGED <<pipeVars, cubeVars, lstVars, travVars>>

RotNext == RotApply

RotSpec == RotInit /\ [][RotNext]_vars

(***************************************************************************)
(* CubeDriver on its own: try_new, then write_frame calls, then drop, one   *)
(* line write per step.                                                     *)
(***************************************************************************)
MaxCalls == 2

\* A frame as the Listener can read it: byte 8 * layer + row in [layer][row].
CountingFrame == [l \in Idx |-> [r \in Idx |-> 8 * l + r]]

\* The frames handed to write_frame.
CubeFrames == {CountingFrame, InvertFrame(CountingFrame), OneOn(3, 5, 2)}

\* write_row: the data lines in the order they are written
ParLines ==
    <<"par_1", "par_2", "par_3", "par_4", "par_5", "par_6", "par_7", "par_8">>

\* set_layer: the layer-select lines in the order they are written
SelLines == <<"layer_sel_bit_0", "layer_sel_bit_1", "layer_sel_bit_2">>

\* Variant of TryNewOrder that starts with the output enabled.
TryNewOrderOutputOn ==
    <<<<"layer_sel_bit_0", Low>>, <<"layer_sel_bit_1", Low>>,
      <<"layer_sel_bit_2", Low>>, <<"out_enable", Low>>,
      <<"par_1", Low>>, <<"par_2", Low>>, <<"par_3", Low>>, <<"par_4", Low>>,
      <<"par_5", Low>>, <<"par_6", Low>>, <<"par_7", Low>>, <<"par_8", Low>>,
      <<"par_rclk", Low>>, <<"par_srclk", Low>>, <<"par_srclr", Low>>>>

\* try_new: into_output_low / into_output_high in source order
TryNewOrder ==
    <<<<"layer_sel_bit_0", Low>>, <<"layer_sel_bit_1", Low>>,
      <<"layer_sel_bit_2", Low>>, <<"out_enable", High>>,
      <<"par_1", Low>>, <<"par_2", Low>>, <<"par_3", Low>>, <<"par_4", Low>>,
      <<"par_5", Low>>, <<"par_6", Low>>, <<"par_7", Low>>, <<"par_8", Low>>,
      <<"par_rclk", Low>>, <<"par_srclk", Low>>, <<"par_srclr", Low>>>>

\* Drop for CubeDriver: set_low / set_high in source order
DropOrder ==
    <<<<"layer_sel_bit_0", Low>>, <<"layer_sel_bit_1", Low>>,
      <<"layer_sel_bit_2", Low>>, <<"out_enable", High>>,
      <<"par_1", Low>>, <<"par_2", Low>>, <<"par_3", Low>>, <<"par_4", Low>>,
      <<"par_5", Low>>, <<"par_6", Low>>, <<"par_7", Low>>, <<"par_8", Low>>,
      <<"par_rclk", Low>>, <<"par_srclk", Low>>, <<"par_srclr", Low>>>>

\* The byte on the data lines: par_1 is bit 0, par_8 is bit 7.
DataByte(p) ==
    p.par_1 + 2 * p.par_2 + 4 * p.par_3 + 8 * p.par_4 + 16 * p.par_5
        + 32 * p.par_6 + 64 * p.par_7 + 128 * p.par_8

\* The layer on the layer-select lines.
SelectedLayer(p) ==
    p.layer_sel_bit_0 + 2 * p.layer_sel_bit_1 + 4 * p.layer_sel_bit_2

\* What the registers hold before the program has touched the lines (all
\* zeros and all ones are tried).
RegStart == {[i \in 1..8 |-> v] : v \in {0, 255}}

\* The name of a level in the record of operations.
LevelName(level) == IF level = High THEN "high" ELSE "low"

\* thread::sleep(d) in the record of operations.
Sleep(d) == <<"sleep", d>>

\* A rising edge of par_srclk: every register takes the level of its data
\* line and passes its content on; the oldest byte falls out.  Nothing is
\* taken while par_srclr holds the registers clear.
ClockedIn(p, reg) ==
    IF p.par_srclk = Low /\ p.par_srclr = High
        THEN Append(Tail(reg), DataByte(p))
        ELSE reg

\* A write of `level` to `line`: par_srclr low clears the shift registers.
ClearedBy(line, level, reg) ==
    IF line = "par_srclr" /\ level = Low THEN ZeroReg ELSE reg

\* The render closure is about to call try_new; the lines are at levels the
\* program has not chosen (all low or all high are tried).
CubeInit ==
    /\ PipeIdle
    /\ RotIdle
    /\ LstIdle
    /\ TravIdle
    /\ cube_pc = "try_new"
    /\ cube_pins \in {[n \in DOMAIN NoPins |-> v] : v \in {Low, High}}
    /\ shift_reg \in RegStart
    /\ out_reg \in RegStart
    /\ latch_frame = <<>>
    /\ ops = <<>>
    /\ ops_prev = <<>>
    /\ data_prev = BlankFrame
    /\ cube_data = BlankFrame
    /\ cube_layer = 0
    /\ cube_row = 0
    /\ cube_k = 0
    /\ cube_calls = 0
    /\ shifted = <<>>
    /\ latched = 0
    /\ sel_writes = 0
    /\ strobed = <<>>
    /\ srclr_hist = <<>>

\* try_new: Gpio::new()? or one of the gpio.get(..)? returns the error
CubeTryNewFails ==
    /\ cube_pc = "try_new"
    /\ cube_pc' = "failed"
    /\ UNCHANGED <<cube_pins, cube_data, cube_layer, cube_row, cube_k,
                   cube_calls, shifted, latched, sel_writes, strobed,
                   srclr_hist>>
    /\ UNCHANGED <<shift_reg, out_reg, latch_frame, ops, ops_prev, data_prev>>
    /\ UNCHANGED <<pipeVars, rotVars, lstVars, travVars>>

\* try_new: the next gpio.get(..)?.into_output_low() / into_output_high()
CubeTryNewPin ==
    /\ cube_pc = "try_new"
    /\ LET w == TryNewOrder[cube_k + 1] IN
         /\ cube_pins' = [cube_pins EXCEPT ![w[1]] = w[2]]
         /\ srclr_hist' = IF w[1] = "par_srclr" THEN Append(srclr_hist, w[2])
                                                ELSE srclr_hist
    /\ IF cube_k + 1 = Len(TryNewOrder)
          THEN cube_pc' = "clear_low" /\ cube_k' = 0
          ELSE cube_pc' = cube_pc /\ cube_k' = cube_k + 1
    /\ UNCHANGED <<cube_data, cube_layer, cube_row, cube_calls, shifted,
                   latched, sel_writes, strobed>>
    /\ shift_reg' = ClearedBy(TryNewOrder[cube_k + 1][1],
                              TryNewOrder[cube_k + 1][2], shift_reg)
    /\ UNCHANGED <<out_reg, latch_frame, ops, ops_prev, data_prev>>
    /\ UNCHANGED <<pipeVars, rotVars, lstVars, travVars>>

\* try_new: par_srclr.set_low()
CubeClearLow ==
    /\ cube_pc = "clear_low"
    /\ cube_pins' = [cube_pins EXCEPT !.par_srclr = Low]
    /\ srclr_hist' = Append(srclr_hist, Low)
    /\ cube_pc' = "clear_high"
    /\ UNCHANGED <<cube_data, cube_layer, cube_row, cube_k, cube_calls,
                   shifted, latched, sel_writes, strobed>>
    /\ shift_reg' = ClearedBy("par_srclr", Low, shift_reg)
    /\ UNCHANGED <<out_reg, latch_frame, ops, ops_prev, data_prev>>
    /\ UNCHANGED <<pipeVars, rotVars, lstVars, travVars>>

\* try_new: par_srclr.set_high(), then Ok(CubeDriver { .. })
CubeClearHigh ==
    /\ cube_pc = "clear_high"
    /\ cube_pins' = [cube_pins EXCEPT !.par_srclr = High]
    /\ srclr_hist' = Append(srclr_hist, High)
    /\ cube_pc' = "idle"
    /\ UNCHANGED <<cube_data, cube_layer, cube_row, cube_k, cube_calls,
                   shifted, latched, sel_writes, strobed>>
    /\ UNCHANGED <<shift_reg, out_reg, latch_frame, ops, ops_prev, data_prev>>
    /\ UNCHANGED <<pipeVars, rotVars, lstVars, travVars>>

\* driver.write_frame(data) is called; the loop enters write_layer(0, ..)
CubeWriteFrame ==
    /\ cube_pc = "idle"
    /\ cube_calls < MaxCalls
    /\ cube_data' \in CubeFrames
    /\ cube_calls' = cube_calls + 1
    /\ cube_layer' = 0
    /\ cube_row' = 0
    /\ cube_k' = 0
    /\ shifted' = <<>>
    /\ latched' = 0
    /\ sel_writes' = 0
    /\ strobed' = <<>>
    /\ cube_pc' = "par"
    /\ UNCHANGED <<cube_pins, srclr_hist>>
    /\ ops_prev' = ops
    /\ ops' = <<>>
    /\ data_prev' = cube_data
    /\ UNCHANGED <<shift_reg, out_reg, latch_frame>>
    /\ UNCHANGED <<pipeVars, rotVars, lstVars, travVars>>

\* Variant of CubeWritePar that puts the pattern on the data lines most
\* significant bit first.
CubeWriteParReversed ==
    /\ cube_pc = "par"
    /\ cube_pins' = [cube_pins EXCEPT ![ParLines[cube_k + 1]] =
                        check_bit(cube_data[cube_layer][cube_row],
                                  2 ^ (7 - cube_k))]
    /\ IF cube_k + 1 = Len(ParLines)
          THEN cube_pc' = "srclk_high" /\ cube_k' = 0
          ELSE cube_pc' = cube_pc /\ cube_k' = cube_k + 1
    /\ UNCHANGED <<cube_data, cube_layer, cube_row, cube_calls, shifted,
                   latched, sel_writes, strobed, srclr_hist>>
    /\ ops' = IF cube_k + 1 = Len(ParLines)
                 THEN ops \o <<<<ParLines[cube_k + 1], "data">>,
                                Sleep("ROW_DRIVE_CLOCK_SLEEP")>>
                 ELSE Append(ops, <<ParLines[cube_k + 1], "data">>)
    /\ UNCHANGED <<shift_reg, out_reg, latch_frame, ops_prev, data_prev>>
    /\ UNCHANGED <<pipeVars, rotVars, lstVars, travVars>>

\* write_row: self.par_<k+1>.write(check_bit(pattern, 1 << k))
CubeWritePar ==
    /\ cube_pc = "par"
    /\ cube_pins' = [cube_pins EXCEPT ![ParLines[cube_k + 1]] =
                        check_bit(cube_data[cube_layer][cube_row], 2 ^ cube_k)]
    /\ IF cube_k + 1 = Len(ParLines)
          THEN cube_pc' = "srclk_high" /\ cube_k' = 0
          ELSE cube_pc' = cube_pc /\ cube_k' = cube_k + 1
    /\ UNCHANGED <<cube_data, cube_layer, cube_row, cube_calls, shifted,
                   latched, sel_writes, strobed, srclr_hist>>
    /\ ops' = IF cube_k + 1 = Len(ParLines)
                 THEN ops \o <<<<ParLines[cube_k + 1], "data">>,
                                Sleep("ROW_DRIVE_CLOCK_SLEEP")>>
                 ELSE Append(ops, <<ParLines[cube_k + 1], "data">>)
    /\ UNCHANGED <<shift_reg, out_reg, latch_frame, ops_prev, data_prev>>
    /\ UNCHANGED <<pipeVars, rotVars, lstVars, travVars>>

\* write_row: self.par_srclk.set_high()
CubeSrclkHigh ==
    /\ cube_pc = "srclk_high"
    /\ cube_pins' = [cube_pins EXCEPT !.par_srclk = High]
    /\ shifted' = IF cube_pins.par_srclk = Low
                     THEN Append(shifted, DataByte(cube_pins))
                     ELSE shifted
    /\ cube_pc' = "srclk_low"
    /\ UNCHANGED <<cube_data, cube_layer, cube_row, cube_k, cube_calls,
                   latched, sel_writes, strobed, srclr_hist>>
    /\ shift_reg' = ClockedIn(cube_pins, shift_reg)
    /\ ops' = ops \o <<<<"par_srclk", LevelName(High)>>,
                       Sleep("ROW_DRIVE_CLOCK_SLEEP")>>
    /\ UNCHANGED <<out_reg, latch_frame, ops_prev, data_prev>>
    /\ UNCHANGED <<pipeVars, rotVars, lstVars, travVars>>

\* write_row: self.par_srclk.set_low(); write_layer's loop takes the next row
CubeSrclkLow ==
    /\ cube_pc = "srclk_low"
    /\ cube_pins' = [cube_pins EXCEPT !.par_srclk = Low]
    /\ IF cube_row = 7
          THEN cube_pc' = "oe_high" /\ cube_row' = 0
          ELSE cube_pc' = "par" /\ cube_row' = cube_row + 1
    /\ UNCHANGED <<cube_data, cube_layer, cube_k, cube_calls, shifted,
                   latched, sel_writes, strobed, srclr_hist>>
    /\ ops' = ops \o <<<<"par_srclk", LevelName(Low)>>,
                       Sleep("ROW_DRIVE_CLOCK_SLEEP")>>
    /\ UNCHANGED <<shift_reg, out_reg, latch_frame, ops_prev, data_prev>>
    /\ UNCHANGED <<pipeVars, rotVars, lstVars, travVars>>

\* Variant of CubeOeHigh that leaves the output enabled.
CubeOeHighSkipped ==
    /\ cube_pc = "oe_high"
    /\ cube_pc' = "rclk_high"
    /\ UNCHANGED <<cube_pins, cube_data, cube_layer, cube_row, cube_k,
                   cube_calls, shifted, latched, sel_writes, strobed,
                   srclr_hist>>
    /\ ops' = Append(ops, Sleep("ROW_WRITE_CLOCK_SLEEP"))
    /\ UNCHANGED <<shift_reg, out_reg, latch_frame, ops_prev, data_prev>>
    /\ UNCHANGED <<pipeVars, rotVars, lstVars, travVars>>

\* write_layer: self.out_enable.set_high()
CubeOeHigh ==
    /\ cube_pc = "oe_high"
    /\ cube_pins' = [cube_pins EXCEPT !.out_enable = High]
    /\ cube_pc' = "rclk_high"
    /\ UNCHANGED <<cube_data, cube_layer, cube_row, cube_k, cube_calls,
                   shifted, latched, sel_writes, strobed, srclr_hist>>
    /\ ops' = ops \o <<<<"out_enable", LevelName(High)>>,
                       Sleep("ROW_WRITE_CLOCK_SLEEP")>>
    /\ UNCHANGED <<shift_reg, out_reg, latch_frame, ops_prev, data_prev>>
    /\ UNCHANGED <<pipeVars, rotVars, lstVars, travVars>>

\* write_layer: self.par_rclk.set_high()
CubeRclkHigh ==
    /\ cube_pc = "rclk_high"
    /\ cube_pins' = [cube_pins EXCEPT !.par_rclk = High]
    /\ latched' = IF cube_pins.par_rclk = Low THEN latched + 1 ELSE latched
    /\ cube_pc' = "sel"
    /\ UNCHANGED <<cube_data, cube_layer, cube_row, cube_k, cube_calls,
                   shifted, sel_writes, strobed, srclr_hist>>
    /\ out_reg' = IF cube_pins.par_rclk = Low THEN shift_reg ELSE out_reg
    /\ latch_frame' = IF cube_pins.par_rclk = Low THEN cube_data
                                                   ELSE latch_frame
    /\ ops' = Append(ops, <<"par_rclk", LevelName(High)>>)
    /\ UNCHANGED <<shift_reg, ops_prev, data_prev>>
    /\ UNCHANGED <<pipeVars, rotVars, lstVars, travVars>>

\* set_layer: self.layer_sel_bit_<k>.write(check_bit(layer, 1 << k))
CubeSetLayerBit ==
    /\ cube_pc = "sel"
    /\ cube_pins' = [cube_pins EXCEPT ![SelLines[cube_k + 1]] =
                        check_bit(cube_layer, 2 ^ cube_k)]
    /\ sel_writes' = sel_writes + 1
    /\ IF cube_k + 1 = Len(SelLines)
          THEN cube_pc' = "rclk_low" /\ cube_k' = 0
          ELSE cube_pc' = cube_pc /\ cube_k' = cube_k + 1
    /\ UNCHANGED <<cube_data, cube_layer, cube_row, cube_calls, shifted,
                   latched, strobed, srclr_hist>>
    /\ ops' = LET op == <<SelLines[cube_k + 1],
                           LevelName(check_bit(cube_layer, 2 ^ cube_k))>>
               IN  IF cube_k + 1 = Len(SelLines)
                      THEN ops \o <<op, Sleep("ROW_WRITE_CLOCK_SLEEP")>>
                      ELSE Append(ops, op)
    /\ UNCHANGED <<shift_reg, out_reg, latch_frame, ops_prev, data_prev>>
    /\ UNCHANGED <<pipeVars, rotVars, lstVars, travVars>>

\* write_layer: self.par_rclk.set_low()
CubeRclkLow ==
    /\ cube_pc = "rclk_low"
    /\ cube_pins' = [cube_pins EXCEPT !.par_rclk = Low]
    /\ cube_pc' = "oe_low"
    /\ UNCHANGED <<cube_data, cube_layer, cube_row, cube_k, cube_calls,
                   shifted, latched, sel_writes, strobed, srclr_hist>>
    /\ ops' = Append(ops, <<"par_rclk", LevelName(Low)>>)
    /\ UNCHANGED <<shift_reg, out_reg, latch_frame, ops_prev, data_prev>>
    /\ UNCHANGED <<pipeVars, rotVars, lstVars, travVars>>

\* write_layer: self.out_enable.set_low(), and write_layer returns
CubeOeLow ==
    /\ cube_pc = "oe_low"
    /\ cube_pins' = [cube_pins EXCEPT !.out_enable = Low]
    /\ cube_pc' = "strobe"
    /\ UNCHANGED <<cube_data, cube_layer, cube_row, cube_k, cube_calls,
                   shifted, latched, sel_writes, strobed, srclr_hist>>
    /\ ops' = ops \o <<<<"out_enable", LevelName(Low)>>,
                       Sleep("ROW_WRITE_CLOCK_SLEEP")>>
    /\ UNCHANGED <<shift_reg, out_reg, latch_frame, ops_prev, data_prev>>
    /\ UNCHANGED <<pipeVars, rotVars, lstVars, travVars>>

\* Variant of CubeStrobe whose loop returns after layer 6.
CubeStrobeSkipsLast ==
    /\ cube_pc = "strobe"
    /\ strobed' = Append(strobed, cube_layer)
    /\ IF cube_layer = 6
          THEN cube_pc' = "idle" /\ cube_layer' = 0
          ELSE cube_pc' = "par" /\ cube_layer' = cube_layer + 1
    /\ shifted' = <<>>
    /\ latched' = 0
    /\ sel_writes' = 0
    /\ UNCHANGED <<cube_pins, cube_data, cube_row, cube_k, cube_calls,
                   srclr_hist>>
    /\ ops' = Append(ops, Sleep("LAYER_STROBE_SLEEP"))
    /\ UNCHANGED <<shift_reg, out_reg, latch_frame, ops_prev, data_prev>>
    /\ UNCHANGED <<pipeVars, rotVars, lstVars, travVars>>

\* Variant of CubeStrobe that does not hold a layer with no LED lit.
CubeStrobeHurriesDarkLayer ==
    /\ cube_pc = "strobe"
    /\ strobed' = Append(strobed, cube_layer)
    /\ IF cube_layer = 7
          THEN cube_pc' = "idle" /\ cube_layer' = 0
          ELSE cube_pc' = "par" /\ cube_layer' = cube_layer + 1
    /\ shifted' = <<>>
    /\ latched' = 0
    /\ sel_writes' = 0
    /\ UNCHANGED <<cube_pins, cube_data, cube_row, cube_k, cube_calls,
                   srclr_hist>>
    /\ ops' = IF \A r \in Idx : cube_data[cube_layer][r] = 0
                 THEN ops
                 ELSE Append(ops, Sleep("LAYER_STROBE_SLEEP"))
    /\ UNCHANGED <<shift_reg, out_reg, latch_frame, ops_prev, data_prev>>
    /\ UNCHANGED <<pipeVars, rotVars, lstVars, travVars>>

\* write_frame: thread::sleep(LAYER_STROBE_SLEEP), then the next layer's
\* write_layer is entered, or write_frame returns after the last one
CubeStrobe ==
    /\ cube_pc = "strobe"
    /\ strobed' = Append(strobed, cube_layer)
    /\ IF cube_layer = 7
          THEN cube_pc' = "idle" /\ cube_layer' = 0
          ELSE cube_pc' = "par" /\ cube_layer' = cube_layer + 1
    /\ shifted' = <<>>
    /\ latched' = 0
    /\ sel_writes' = 0
    /\ UNCHANGED <<cube_pins, cube_data, cube_row, cube_k, cube_calls,
                   srclr_hist>>
    /\ ops' = Append(ops, Sleep("LAYER_STROBE_SLEEP"))
    /\ UNCHANGED <<shift_reg, out_reg, latch_frame, ops_prev, data_prev>>
    /\ UNCHANGED <<pipeVars, rotVars, lstVars, travVars>>

\* Drop for CubeDriver: the driver goes out of scope between calls, and the
\* next set_low() / set_high() of drop is made
CubeDropPin ==
    /\ cube_pc \in {"idle", "drop"}
    /\ LET w == DropOrder[cube_k + 1] IN
         /\ cube_pins' = [cube_pins EXCEPT ![w[1]] = w[2]]
         /\ srclr_hist' = IF w[1] = "par_srclr" THEN Append(srclr_hist, w[2])
                                                ELSE srclr_hist
    /\ IF cube_k + 1 = Len(DropOrder)
          THEN cube_pc' = "dropped" /\ cube_k' = 0
          ELSE cube_pc' = "drop" /\ cube_k' = cube_k + 1
    /\ UNCHANGED <<cube_data, cube_layer, cube_row, cube_calls, shifted,
                   latched, sel_writes, strobed>>
    /\ shift_reg' = ClearedBy(DropOrder[cube_k + 1][1],
                              DropOrder[cube_k + 1][2], shift_reg)
    /\ UNCHANGED <<out_reg, latch_frame, ops, ops_prev, data_prev>>
    /\ UNCHANGED <<pipeVars, rotVars, lstVars, travVars>>

CubeNext ==
    \/ CubeTryNewFails \/ CubeTryNewPin \/ CubeClearLow \/ CubeClearHigh
    \/ CubeWriteFrame \/ CubeWritePar \/ CubeSrclkHigh \/ CubeSrclkLow
    \/ CubeOeHigh \/ CubeRclkHigh \/ CubeSetLayerBit \/ CubeRclkLow
    \/ CubeOeLow \/ CubeStrobe \/ CubeDropPin

CubeSpec == CubeInit /\ [][CubeNext]_vars

(***************************************************************************)
(* The Listener program: run_routine's loop over                            *)
(* stdin().lines().map(|l| l.ok().and_then(|s| read_base16_frame(&s).ok())) *)
(*                .flatten()                                                *)
(* A line is a record: err says the read returned Err, text is the string   *)
(* as a sequence of characters, a hexadecimal digit being its value 0..15   *)
(* and any other character 16.                                              *)
(***************************************************************************)
MaxLines == 3

\* The text of a well-formed line: two hexadecimal digits per byte, the bytes
\* in the order [layer][row].
HexLine(f) ==
    [i \in 1..128 |->
        LET b == f[((i - 1) \div 2) \div 8][((i - 1) \div 2) % 8]
        IN  IF i % 2 = 1 THEN b \div 16 ELSE b % 16]

\* decoders::read_base16_frame: Ok(frame) for 128 hexadecimal digits, Err
\* for anything else.
read_base16_frame(text) ==
    IF Len(text) = 128 /\ \A i \in 1..128 : text[i] \in 0..15
       THEN [ok |-> TRUE,
             frame |-> [l \in Idx |-> [r \in Idx |->
                          16 * text[2 * (8 * l + r) + 1]
                             + text[2 * (8 * l + r) + 2]]]]
       ELSE [ok |-> FALSE, frame |-> BlankFrame]

\* The lines tried: two well-formed ones, one a digit short, one with a
\* character that is no hexadecimal digit, an empty one, and a read error.
LineKinds ==
    {[err |-> FALSE, text |-> HexLine(CountingFrame)],
     [err |-> FALSE, text |-> HexLine(OneLayer(3))],
     [err |-> FALSE, text |-> SubSeq(HexLine(CountingFrame), 1, 127)],
     [err |-> FALSE, text |-> [HexLine(CountingFrame) EXCEPT ![5] = 16]],
     [err |-> FALSE, text |-> <<>>],
     [err |-> TRUE, text |-> <<>>]}

\* l.ok().and_then(|s| read_base16_frame(&s).ok()) is Some
YieldsFrame(line) == ~line.err /\ read_base16_frame(line.text).ok

\* run_routine is entered with the Listener's iterator; stdin will yield
\* some sequence of at most MaxLines lines and then end of file.
LstInit ==
    /\ PipeInit
    /\ RotIdle
    /\ CubeIdle
    /\ TravIdle
    /\ stdin_lines \in UNION {[1..n -> LineKinds] : n \in 0..MaxLines}
    /\ lst_pos = 0
    /\ lst_pc = "next"
    /\ lst_frame = BlankFrame
    /\ lst_sent = <<>>
    /\ lst_skipped = 0
    /\ lst_failed = FALSE

\* Variant of LstReadLine in which a line that yields no frame ends the
\* iteration.
LstReadLineStopsOnError ==
    /\ lst_pc = "next"
    /\ lst_pos < Len(stdin_lines)
    /\ lst_pos' = lst_pos + 1
    /\ LET line == stdin_lines[lst_pos + 1] IN
         IF YieldsFrame(line)
            THEN /\ lst_frame' = read_base16_frame(line.text).frame
                 /\ lst_pc' = "send"
                 /\ UNCHANGED lst_skipped
            ELSE /\ lst_skipped' = lst_skipped + 1
                 /\ lst_pc' = "done"
                 /\ UNCHANGED lst_frame
    /\ UNCHANGED <<stdin_lines, lst_sent, lst_failed>>
    /\ UNCHANGED <<pipeVars, rotVars, cubeVars, travVars>>

\* frames.next(): lines() reads one line; map gives Some(frame) or None, and
\* flatten passes the frame on or goes on to the next line
LstReadLine ==
    /\ lst_pc = "next"
    /\ lst_pos < Len(stdin_lines)
    /\ lst_pos' = lst_pos + 1
    /\ LET line == stdin_lines[lst_pos + 1] IN
         IF YieldsFrame(line)
            THEN /\ lst_frame' = read_base16_frame(line.text).frame
                 /\ lst_pc' = "send"
                 /\ UNCHANGED lst_skipped
            ELSE /\ lst_skipped' = lst_skipped + 1
                 /\ UNCHANGED <<lst_frame, lst_pc>>
    /\ UNCHANGED <<stdin_lines, lst_sent, lst_failed>>
    /\ UNCHANGED <<pipeVars, rotVars, cubeVars, travVars>>

\* frames.next(): end of file, lines() returns None and the loop ends
LstEndOfFile ==
    /\ lst_pc = "next"
    /\ lst_pos = Len(stdin_lines)
    /\ lst_pc' = "done"
    /\ UNCHANGED <<stdin_lines, lst_pos, lst_frame, lst_sent, lst_skipped,
                   lst_failed>>
    /\ UNCHANGED <<pipeVars, rotVars, cubeVars, travVars>>

\* run_routine: rotate, invert, sender.send(inverted) is Ok
LstSend ==
    /\ lst_pc = "send"
    /\ lst_sent' = Append(lst_sent, Transform(rotate, invert, lst_frame))
    /\ lst_pc' = "next"
    /\ UNCHANGED <<stdin_lines, lst_pos, lst_frame, lst_skipped, lst_failed>>
    /\ UNCHANGED <<pipeVars, rotVars, cubeVars, travVars>>

\* run_routine: sender.send(inverted) is Err (the forwarder has dropped its
\* receiver), break
LstSendFails ==
    /\ lst_pc = "send"
    /\ lst_failed' = TRUE
    /\ lst_pc' = "done"
    /\ UNCHANGED <<stdin_lines, lst_pos, lst_frame, lst_sent, lst_skipped>>
    /\ UNCHANGED <<pipeVars, rotVars, cubeVars, travVars>>

LstNext == LstReadLine \/ LstEndOfFile \/ LstSend \/ LstSendFails

ListenerSpec == LstInit /\ [][LstNext]_vars

(***************************************************************************)
(* The Traveller program: Traveller::new and the calls of its next().       *)
(* The coordinates are u8: coord - 1 and coord + 1 are taken modulo 256, so *)
(* a step below 0 or above 255 shows as a coordinate outside 0..7 (a        *)
(* release build wraps; a debug build panics at the subtraction).           *)
(***************************************************************************)
MaxTravCalls == 4

\* Variant of pick_x without the tests for the walls.
pick_x_through_walls(dir) ==
    IF dir THEN <<(current_x + 255) % 256, current_y, current_z>>
    ELSE <<(current_x + 1) % 256, current_y, current_z>>

\* fn pick_x(&self, dir: bool) -> (u8, u8, u8)
pick_x(dir) ==
    IF current_x = 7 THEN <<6, current_y, current_z>>
    ELSE IF current_x = 0 THEN <<1, current_y, current_z>>
    ELSE IF dir THEN <<(current_x + 255) % 256, current_y, current_z>>
    ELSE <<(current_x + 1) % 256, current_y, current_z>>

\* fn pick_y(&self, dir: bool) -> (u8, u8, u8)
pick_y(dir) ==
    IF current_y = 7 THEN <<current_x, 6, current_z>>
    ELSE IF current_y = 0 THEN <<current_x, 1, current_z>>
    ELSE IF dir THEN <<current_x, (current_y + 255) % 256, current_z>>
    ELSE <<current_x, (current_y + 1) % 256, current_z>>

\* fn pick_z(&self, dir: bool) -> (u8, u8, u8)
pick_z(dir) ==
    IF current_z = 7 THEN <<current_x, current_y, 6>>
    ELSE IF current_z = 0 THEN <<current_x, current_y, 1>>
    ELSE IF dir THEN <<current_x, current_y, (current_z + 255) % 256>>
    ELSE <<current_x, current_y, (current_z + 1) % 256>>

\* choice & mask == 0, for a mask of one bit 1 << bit
MaskClear(choice, bit) == Bit(choice, bit) = 0

\* fn pick(&mut self) -> (u8, u8, u8), for the value `choice` of
\* self.rng.next_u32(); only its bits 0, 1 and 2 are looked at.
pick(choice) ==
    LET dir == MaskClear(choice, 0)
    IN
    IF last_x > current_x THEN
        IF current_x = 0 THEN
            IF MaskClear(choice, 1) THEN pick_y(dir) ELSE pick_z(dir)
        ELSE IF MaskClear(choice, 1) THEN
            IF MaskClear(choice, 2) THEN pick_y(dir) ELSE pick_z(dir)
        ELSE <<(current_x + 255) % 256, current_y, current_z>>
    ELSE IF last_x < current_x THEN
        IF current_x = 7 THEN
            IF MaskClear(choice, 1) THEN pick_y(dir) ELSE pick_z(dir)
        ELSE IF MaskClear(choice, 1) THEN
            IF MaskClear(choice, 2) THEN pick_y(dir) ELSE pick_z(dir)
        ELSE <<(current_x + 1) % 256, current_y, current_z>>
    ELSE IF last_y > current_y THEN
        IF current_y = 0 THEN
            IF MaskClear(choice, 1) THEN pick_x(dir) ELSE pick_z(dir)
        ELSE IF MaskClear(choice, 1) THEN
            IF MaskClear(choice, 2) THEN pick_x(dir) ELSE pick_z(dir)
        ELSE <<current_x, (current_y + 255) % 256, current_z>>
    ELSE IF last_y < current_y THEN
        IF current_y = 7 THEN
            IF MaskClear(choice, 1) THEN pick_x(dir) ELSE pick_z(dir)
        ELSE IF MaskClear(choice, 1) THEN
            IF MaskClear(choice, 2) THEN pick_x(dir) ELSE pick_z(dir)
        ELSE <<current_x, (current_y + 1) % 256, current_z>>
    ELSE IF last_z > current_z THEN
        IF current_z = 0 THEN
            IF MaskClear(choice, 1) THEN pick_x(dir) ELSE pick_y(dir)
        ELSE IF MaskClear(choice, 1) THEN
            IF MaskClear(choice, 2) THEN pick_x(dir) ELSE pick_y(dir)
        ELSE <<current_x, current_y, (current_z + 255) % 256>>
    ELSE
        IF current_z = 7 THEN
            IF MaskClear(choice, 1) THEN pick_x(dir) ELSE pick_y(dir)
        ELSE IF MaskClear(choice, 1) THEN
            IF MaskClear(choice, 2) THEN pick_x(dir) ELSE pick_y(dir)
        ELSE <<current_x, current_y, (current_z + 1) % 256>>

\* frame[z][x] |= 1 << y for each cell <<x, y, z>> of `cells`
LitCells(cells) ==
    [l \in Idx |-> [r \in Idx |->
        LET ys == {c[2] : c \in {d \in cells : d[3] = l /\ d[1] = r}}
            or[i \in 0..8] ==
                IF i = 8 THEN 0 ELSE (IF i \in ys THEN 2 ^ i ELSE 0) + or[i + 1]
        IN  or[0]]]

\* Traveller::new()
TravInit ==
    /\ PipeIdle
    /\ RotIdle
    /\ CubeIdle
    /\ LstIdle
    /\ trav_pc = "run"
    /\ last_x = 4
    /\ last_y = 4
    /\ last_z = 4
    /\ current_x = 4
    /\ current_y = 4
    /\ current_z = 3
    /\ trav_frame = BlankFrame
    /\ trav_before = <<>>
    /\ trav_calls = 0

\* fn next(&mut self) -> Option<Frame>.  A picked coordinate outside 0..7
\* ends the program: the frame cannot be indexed with it.
TravNextFrame ==
    /\ trav_pc = "run"
    /\ \E choice \in 0..7 :
         LET nxt == pick(choice)
         IN  /\ trav_before' = <<last_x, last_y, last_z>>
             /\ last_x' = current_x
             /\ last_y' = current_y
             /\ last_z' = current_z
             /\ current_x' = nxt[1]
             /\ current_y' = nxt[2]
             /\ current_z' = nxt[3]
             /\ IF \A i \in 1..3 : nxt[i] \in Idx
                THEN /\ trav_frame' =
                            LitCells({<<last_x, last_y, last_z>>,
                                      <<current_x, current_y, current_z>>, nxt})
                     /\ trav_pc' = "run"
                ELSE /\ trav_frame' = trav_frame
                     /\ trav_pc' = "panicked"
    /\ trav_calls' = IF trav_calls < MaxTravCalls THEN trav_calls + 1
                     ELSE trav_calls
    /\ UNCHANGED <<pipeVars, rotVars, cubeVars, lstVars>>

TravNext == TravNextFrame

TravSpec == TravInit /\ [][TravNext]_vars

(***************************************************************************)
(* Properties.                                                             *)
(***************************************************************************)
\* Every line named by the teardown contract is at its inert level.
Inert(p) ==
    /\ p.layer_sel_bit_0 = Low /\ p.layer_sel_bit_1 = Low /\ p.layer_sel_bit_2 = Low
    /\ p.out_enable = High
    /\ p.par_1 = Low /\ p.par_2 = Low /\ p.par_3 = Low /\ p.par_4 = Low
    /\ p.par_5 = Low /\ p.par_6 = Low /\ p.par_7 = Low /\ p.par_8 = Low
    /\ p.par_srclk = Low /\ p.par_rclk = Low

Acquired == driver \in {"live", "dropped"}

Last(q) == q[Len(q)]

Range(q) == {q[i] : i \in 1..Len(q)}

\* A write_frame call of the CubeDriver used on its own is in progress.
InCall ==
    cube_pc \in {"par", "srclk_high", "srclk_low", "oe_high", "rclk_high",
                 "sel", "rclk_low", "oe_low", "strobe"}

\* The rows of the layer being written, as a sequence.
LayerRows == [i \in 1..8 |-> cube_data[cube_layer][i - 1]]

\* The layers 0 .. n-1, as a sequence.
LayersBelow(n) == [i \in 1..n |-> i - 1]

\* C1: when the driver was acquired and the render thread has terminated, the
\* last level written to the layer-select lines is low, to output-enable high,
\* to the eight data lines low and to both clocks low.
C1_TeardownInert ==
    (Acquired /\ render_pc = "done") => (driver = "dropped" /\ Inert(pins))

\* C1 witness: the render thread has terminated after a cancelled session in
\* which it displayed at least one received frame.
C1_Witness ==
    /\ render_pc = "done"
    /\ driver = "dropped"
    /\ handed # <<>>
    /\ stop_token

\* C2 as stated: once the stop token is set, the forwarder leaves its loop and
\* the render thread terminates, whatever the animation source does.
C2_CancellationTearsDown ==
    stop_token ~> (fwd_pc \in {"drop", "join", "done"} /\ render_pc = "done")

\* C3: at most one frame reaches the render loop after the stop token is set,
\* and once the forwarder has left its loop no frame is left pending.
C3_AtMostOneAfterStop ==
    /\ handedAfterStop <= 1
    /\ fwd_pc \in {"drop", "join", "done"} => mailbox = <<>>

\* C3 witness: a frame was handed over after the token was set and the
\* forwarder has since observed the token and left its loop.
C3_Witness ==
    /\ stop_token
    /\ handedAfterStop = 1
    /\ fwd_pc = "join"

\* C4: run_routine has returned only if the forwarder's sender is dropped, the
\* forwarder and the render thread have finished, and an acquired driver has
\* been torn down.
C4_ReturnAfterTeardown ==
    main_pc = "done" =>
        /\ ~fwd_tx
        /\ fwd_pc = "done"
        /\ render_pc = "done"
        /\ driver \in {"dropped", "failed"}
        /\ (driver = "dropped" => Inert(pins))

\* C4 witness: run_routine has returned from a session whose driver was
\* acquired and which displayed a frame.
C4_Witness ==
    /\ main_pc = "done"
    /\ driver = "dropped"
    /\ handed # <<>>

\* The source will put no further frame into the channel.
NoMoreFrames == main_pc \in {"drop", "join", "done"} \/ (main_pc = "next" /\ stalled)

\* The render loop is inside write_frame(f).
Displaying(f) == render_pc = "write" /\ curr_frame = f

\* C5 as stated: the last frame sent is eventually displayed.
C5_Original ==
    (NoMoreFrames /\ sent # <<>> /\ Last(sent) \notin Range(handed))
        ~> (sent # <<>> /\ Displaying(Last(sent)))

\* C5 amended: unless the stop token is set or the driver could not be
\* acquired, the last frame sent is eventually displayed, and from some point
\* on it is the frame the render loop holds.
C5_LastFrameDisplayed ==
    /\ (NoMoreFrames /\ sent # <<>> /\ Last(sent) \notin Range(handed))
          ~> \/ sent # <<>> /\ Displaying(Last(sent))
             \/ stop_token
             \/ driver = "failed"
    /\ (NoMoreFrames /\ sent # <<>>)
          ~> [](\/ sent # <<>> /\ curr_frame = Last(sent)
                \/ stop_token
                \/ driver = "failed")

\* C5 witness: several frames were sent, the source has ended without
\* cancellation, earlier frames are still queued behind the render loop and
\* the last one is not yet displayed.
C5_Witness ==
    /\ NoMoreFrames
    /\ ~stop_token
    /\ driver = "live"
    /\ Len(sent) >= 2
    /\ Len(queue) >= 2
    /\ Last(sent) \notin Range(handed)

\* Frames produced and not yet taken by the render loop.
Pending ==
    (IF main_pc = "send" THEN 1 ELSE 0) + Len(queue)
    + (IF fwd_pc = "send" THEN 1 ELSE 0) + Len(mailbox)

\* C6 as stated: the hand-off path between producer and render loop holds at
\* most one pending frame.
C6_Original == Pending <= 1

\* C6 amended: the rendezvous channel between forwarder and render loop holds
\* at most one pending frame, the one the forwarder is blocked sending.
C6_MailboxAtMostOne ==
    /\ Len(mailbox) <= 1
    /\ mailbox # <<>> => (fwd_pc = "sending" /\ mailbox = <<fwd_frame>>)

\* C6 witness: one frame is pending in the rendezvous channel while further
\* frames wait in the forwarder's input channel.
C6_Witness ==
    /\ Len(mailbox) = 1
    /\ Len(queue) >= 1

\* C7 as stated: every frame passed to write_frame was sent before.
C7_Original == render_pc = "write" => curr_frame \in Range(sent)

\* C7 amended: the frame passed to write_frame is the initial all-zero frame
\* while nothing has been received, and afterwards the frame received last,
\* which was sent before.
C7_DisplayedWasSentOrInitial ==
    render_pc = "write" =>
        IF handed = <<>>
        THEN curr_frame = BlankFrame
        ELSE curr_frame = Last(handed) /\ curr_frame \in Range(sent)

\* C7 witness: the render loop is in the middle of a sweep of a received frame.
C7_Witness ==
    /\ render_pc = "write"
    /\ layer = 3
    /\ handed # <<>>

\* C8 as stated: after a failed acquisition the process reports the failure
\* and exits with a non-zero status.
C8_AcquireFailureReported ==
    (main_pc = "done" /\ driver = "failed") =>
        (exit_status # 0 /\ stderr # <<>>)

\* C9 as stated: a hand-off attempted after the render thread has terminated
\* ends with the forwarder thread and the producer loop both terminated.
C9_ClosedPipelineTerminates ==
    (fwd_pc \in {"send", "sending"} /\ render_pc = "done")
        ~> (fwd_pc = "done" /\ ~fwd_tx /\ main_pc = "done")

\* The render loop has been left (the driver was acquired and the loop broken).
LoopLeft == Acquired /\ render_pc \in {"exit", "done"}

\* C10: the render loop is left only when every sender is dropped; once the
\* sender is dropped no new sweep starts, the loop is left and the driver is
\* released.
C10_LoopEndsWithSenders ==
    /\ [](LoopLeft => ~fwd_tx)
    /\ [][(~fwd_tx /\ render_pc = "loop") => render_pc' \in {"loop", "exit"}]_vars
    /\ (render_pc \in {"loop", "write"} /\ ~fwd_tx)
          ~> (render_pc = "done" /\ driver = "dropped" /\ Inert(pins))

\* C10 witness: the sender was dropped in the middle of a sweep.
C10_Witness ==
    /\ ~fwd_tx
    /\ render_pc = "write"
    /\ layer = 4

\* C11: an iteration of the render loop leaves try_recv either for a sweep or,
\* only when the mailbox is closed and empty, for the exit; a sweep starts at
\* layer 0 with the frame just received or else the frame held before, keeps
\* that frame, writes the layers one after the other and returns to try_recv
\* after layer 7 only; while a sender is alive the loop always goes on to
\* another sweep, and every sweep ends.
C11_EveryIterationDisplays ==
    /\ [][render_pc = "loop" /\ render_pc' # "loop" =>
            \/ /\ render_pc' = "write"
               /\ layer' = 0
               /\ curr_frame' = IF mailbox # <<>> THEN Head(mailbox) ELSE curr_frame
            \/ /\ render_pc' = "exit"
               /\ mailbox = <<>>
               /\ ~fwd_tx]_vars
    /\ [][render_pc = "write" =>
            /\ curr_frame' = curr_frame
            /\ \/ render_pc' = "write" /\ layer' \in {layer, layer + 1}
               \/ render_pc' = "loop" /\ layer = 7]_vars
    /\ render_pc = "loop" ~> (render_pc = "write" \/ ~fwd_tx)
    /\ render_pc = "write" ~> render_pc = "loop"

\* C11 witness: with no frame ever received and the source stalled, the render
\* loop is in the last layer of a sweep of the frame it started with.
C11_Witness ==
    /\ render_pc = "write"
    /\ layer = 7
    /\ handed = <<>>
    /\ stalled
    /\ fwd_pc = "recv"

\* C20: a sweep is left only after layer 7; the loop is left, and the driver
\* dropped, only from try_recv; and a frame is taken from the mailbox only
\* between sweeps.
C20_SweepRunsToCompletion ==
    [][/\ render_pc = "write" =>
             \/ render_pc' = "write"
             \/ render_pc' = "loop" /\ layer = 7
       /\ (render_pc # "exit" /\ render_pc' = "exit") => render_pc = "loop"
       /\ (driver = "live" /\ driver' # "live") => render_pc = "exit"
       /\ handed' # handed => render_pc = "loop"]_vars

\* C20 witness: the stop token is set and the forwarder's sender dropped while
\* the sweep is at layer 5.
C20_Witness ==
    /\ stop_token
    /\ ~fwd_tx
    /\ render_pc = "write"
    /\ layer = 5

\* C13: for each of the rotations about X, Y and Z and every frame tried, the
\* result of four calls of apply in succession is the frame they started from.
C13_FourRotationsIdentity ==
    (rot_self # "None" /\ rot_calls = 4) => rot_data = rot_frame

\* C13 witness: four calls of the rotation about Z were made on a single-LED
\* frame, and the second of them had not given the frame back.
C13_Witness ==
    /\ rot_self = "K"
    /\ rot_calls = 4
    /\ rot_frame = OneOn(1, 2, 3)
    /\ apply("K", apply("K", rot_frame)) # rot_frame

\* C14 as stated: bit c of the result's [l][r] is bit l of the input's [c][r].
C14_Original ==
    (rot_self = "I" /\ rot_calls = 1) =>
        \A l \in Idx, r \in Idx, c \in Idx :
            Bit(rot_data[l][r], c) = Bit(rot_frame[c][r], l)

\* C14: after one call of the rotation about X, bit c of the result's [l][r]
\* is bit l of the input's [7 - c][r], for every layer l, row r and bit c.
C14_RotateAboutXBits ==
    (rot_self = "I" /\ rot_calls = 1) =>
        \A l \in Idx, r \in Idx, c \in Idx :
            Bit(rot_data[l][r], c) = Bit(rot_frame[7 - c][r], l)

\* C14 witness: the rotation about X has moved the LED of layer 1, row 2,
\* column 5 to layer 5, row 2, column 6.
C14_Witness ==
    /\ rot_self = "I"
    /\ rot_calls = 1
    /\ rot_frame = OneOn(2, 5, 1)
    /\ rot_data = OneOn(2, 6, 5)

\* C15 as stated: layer 3 fully lit, rotated about Y, lights exactly the cells
\* of column 4 in every layer.
C15_Original ==
    (rot_self = "J" /\ rot_calls = 1 /\ rot_frame = OneLayer(3)) =>
        rot_data = OneCol(4)

\* C15: layer 3 fully lit, rotated about Y, lights exactly the cells of row 3
\* in every layer.
C15_RotateAboutYLayer3 ==
    (rot_self = "J" /\ rot_calls = 1 /\ rot_frame = OneLayer(3)) =>
        rot_data = OneRow(3)

\* C15 witness: the rotation about Y has been applied once to the frame with
\* layer 3 fully lit, and row 3 of layer 0 is lit in the result.
C15_Witness ==
    /\ rot_self = "J"
    /\ rot_calls = 1
    /\ rot_frame = OneLayer(3)
    /\ rot_data[0][3] = 255

\* C12: inside a write_frame call the layers held so far are 0 .. layer-1 in
\* that order; when a layer is held its 8 rows have been shifted in, the latch
\* was raised once, the layer-select lines carry its index and the output is
\* enabled; and once the call has returned the layers held are 0 .. 7, each
\* once, in order.
C12_FrameWritesEightLayers ==
    /\ InCall => strobed = LayersBelow(cube_layer)
    /\ cube_pc = "strobe" =>
          /\ shifted = LayerRows
          /\ latched = 1
          /\ sel_writes = 3
          /\ SelectedLayer(cube_pins) = cube_layer
          /\ cube_pins.out_enable = Low
    /\ (cube_calls > 0 /\ ~InCall) => strobed = LayersBelow(8)

\* C12 witness: the second write_frame call has returned, having written the
\* frame whose rows all differ.
C12_Witness ==
    /\ cube_pc = "idle"
    /\ cube_calls = 2
    /\ cube_data = CountingFrame
    /\ Len(strobed) = 8

\* C16: when try_new has returned Ok and no display call was made yet, the
\* layer-select, data, shift-clock and latch-clock lines are low, output-enable
\* is high, and the clear line was last written low and then high; the clear
\* line stays high during every display call.
C16_AcquiredLevels ==
    /\ (cube_pc = "idle" /\ cube_calls = 0) =>
          /\ Inert(cube_pins)
          /\ cube_pins.par_srclr = High
          /\ Len(srclr_hist) >= 2
          /\ srclr_hist[Len(srclr_hist) - 1] = Low
          /\ srclr_hist[Len(srclr_hist)] = High
    /\ InCall =>
          /\ cube_pins.par_srclr = High
          /\ \E i \in 1..(Len(srclr_hist) - 1) :
                srclr_hist[i] = Low /\ srclr_hist[i + 1] = High

\* C16 witness: try_new has just returned Ok; the clear line was configured
\* low, set low and set high.
C16_Witness ==
    /\ cube_pc = "idle"
    /\ cube_calls = 0
    /\ srclr_hist = <<Low, Low, High>>

\* C18: during a write_frame call, a rising edge of the latch clock and a
\* change of a layer-select line happen only while output-enable is high and
\* after 8 rows were shifted in; and output-enable falls only after the latch
\* clock was raised and the three layer-select lines were written with the
\* index of the layer.
C18_LatchAndSelectWhileDark ==
    [][InCall =>
         /\ (cube_pins.par_rclk = Low /\ cube_pins'.par_rclk = High) =>
               (cube_pins.out_enable = High /\ Len(shifted) = 8)
         /\ (\E i \in 1..3 : cube_pins'[SelLines[i]] # cube_pins[SelLines[i]]) =>
               (cube_pins.out_enable = High /\ Len(shifted) = 8)
         /\ (cube_pins.out_enable = High /\ cube_pins'.out_enable = Low) =>
               /\ latched = 1
               /\ sel_writes = 3
               /\ SelectedLayer(cube_pins) = cube_layer]_vars

\* C18 witness: in layer 6 the latch clock is high, the output is disabled
\* and the first layer-select line has been written, the others not yet.
C18_Witness ==
    /\ cube_pc = "sel"
    /\ cube_layer = 6
    /\ cube_k = 1
    /\ cube_pins.par_rclk = High
    /\ cube_pins.out_enable = High
    /\ SelectedLayer(cube_pins) # cube_layer

\* C19: when the shift clock is about to rise for row i of a layer, i rising
\* edges were made in this layer and data line k+1 carries bit k of row i, for
\* k in 0..7; when the rows are done the bytes clocked in are the 8 rows in
\* order 0..7, and no further edge is made in the layer; and no data line
\* changes while the shift clock is high inside a call.
C19_ShiftClockPulses ==
    /\ [](cube_pc = "srclk_high" =>
            /\ Len(shifted) = cube_row
            /\ cube_pins.par_srclk = Low
            /\ \A k \in Idx : cube_pins[ParLines[k + 1]] =
                                 Bit(cube_data[cube_layer][cube_row], k))
    /\ [](cube_pc \in {"oe_high", "rclk_high", "sel", "rclk_low", "oe_low",
                       "strobe"} => shifted = LayerRows)
    /\ [][(InCall /\ cube_pins.par_srclk = High) =>
            \A k \in 1..8 : cube_pins'[ParLines[k]] = cube_pins[ParLines[k]]]_vars

\* C19 witness: the shift clock is high for row 6 of layer 2 of the frame
\* whose rows all differ, with byte 22 on the data lines.
C19_Witness ==
    /\ cube_pc = "srclk_low"
    /\ cube_pins.par_srclk = High
    /\ cube_data = CountingFrame
    /\ cube_layer = 2
    /\ cube_row = 6
    /\ DataByte(cube_pins) = 22
    /\ Len(shifted) = 7

\* The frames run_routine forwards for the lines q: the decodings of the
\* lines that yield a frame, rotated and inverted as asked, in input order.
RECURSIVE Forwardable(_)
Forwardable(q) ==
    IF q = <<>> THEN <<>>
    ELSE LET rest == Forwardable(SubSeq(q, 1, Len(q) - 1))
             line == q[Len(q)]
         IN  IF YieldsFrame(line)
                THEN Append(rest, Transform(rotate, invert,
                                            read_base16_frame(line.text).frame))
                ELSE rest

\* C17: as long as no send has failed, the frames forwarded, with the one in
\* hand, are the decodings of the well-formed lines read so far, in input
\* order; every line read was forwarded or skipped; and the loop ends only
\* at end of file, whatever lines were malformed or unreadable.
C17_ListenerSkipsMalformed ==
    ~lst_failed =>
        /\ Forwardable(SubSeq(stdin_lines, 1, lst_pos)) =
              lst_sent \o (IF lst_pc = "send"
                              THEN <<Transform(rotate, invert, lst_frame)>>
                              ELSE <<>>)
        /\ lst_pos = Len(Forwardable(SubSeq(stdin_lines, 1, lst_pos)))
                        + lst_skipped
        /\ lst_pc = "done" => lst_pos = Len(stdin_lines)

\* C17 witness: a read error and a line with a bad character were skipped,
\* the well-formed line after them was forwarded, and the loop has ended at
\* end of file.
C17_Witness ==
    /\ lst_pc = "done"
    /\ ~lst_failed
    /\ Len(stdin_lines) = 3
    /\ stdin_lines[1].err
    /\ stdin_lines[2].text = [HexLine(CountingFrame) EXCEPT ![5] = 16]
    /\ lst_skipped = 2
    /\ lst_sent = <<Transform(rotate, invert, CountingFrame)>>

\* The lit cells of a frame, as <<layer, row, bit position>>.
Lit(f) ==
    UNION {LET byte == f[l][r]
           IN  {<<l, r, c>> : c \in {b \in Idx : Bit(byte, b) = 1}} :
           l \in Idx, r \in Idx}

\* The coordinate of a cell along the axis of a rotation: the row index for
\* the rotation about X, the bit position for Y, the layer index for Z.
AxisCoord(rot, cell) ==
    CASE rot = "I" -> cell[2]
      [] rot = "J" -> cell[3]
      [] rot = "K" -> cell[1]

\* Where one call of apply puts the single LED at `cell`: the lit cells of
\* the rotated single-LED frame.
CellImage(rot, cell) == Lit(apply(rot, OneOn(cell[2], cell[3], cell[1])))

\* C23: after one call of a rotation about X, Y or Z, every lit cell of the
\* input has exactly one image cell, with the same coordinate along the
\* rotation's axis; the lit cells of the result are exactly those images; and
\* the number of lit cells is the same.
C23_RotationFixesItsAxis ==
    (rot_self # "None" /\ rot_calls = 1) =>
        /\ \A cell \in Lit(rot_frame) :
              LET img == CellImage(rot_self, cell) IN
                /\ Cardinality(img) = 1
                /\ \A c \in img :
                      AxisCoord(rot_self, c) = AxisCoord(rot_self, cell)
        /\ Lit(rot_data) =
              UNION {CellImage(rot_self, cell) : cell \in Lit(rot_frame)}
        /\ Cardinality(Lit(rot_data)) = Cardinality(Lit(rot_frame))

\* C23 witness: the rotation about Y has moved the LED of layer 1, row 2,
\* bit 5 to layer 5, row 1, bit 5.
C23_Witness ==
    /\ rot_self = "J"
    /\ rot_calls = 1
    /\ rot_frame = OneOn(2, 5, 1)
    /\ rot_data = OneOn(1, 5, 5)

\* C21: when the forwarder begins a hand-off after an earlier one succeeded,
\* it has completed exactly one sleep since that one; and a successful
\* hand-off is followed by the sleep, nothing else.
C21_SleepBetweenHandOffs ==
    /\ [][(fwd_pc = "send" /\ fwd_pc' = "sending" /\ handed # <<>>) =>
             sleeps = 1]_vars
    /\ [][(fwd_pc = "sending" /\ fwd_pc' \notin {"sending", "drop"}) =>
             fwd_pc' = "sleep"]_vars
    /\ [][(fwd_pc = "sleep" /\ fwd_pc' # "sleep") =>
             (fwd_pc' = "check" /\ sleeps' = sleeps + 1)]_vars

\* C21 witness: the second frame is being handed off, one sleep after the
\* first was taken.
C21_Witness ==
    /\ fwd_pc = "sending"
    /\ Len(handed) = 1
    /\ mailbox # <<>>
    /\ sleeps = 1

\* The n-th frame the source produces (n = 1, 2, ..), as run_routine
\* transforms it.
Produced(n) == Transform(rotate, invert, CycleLayers(n - 1))

\* The frame the forwarder holds or has offered and the render loop has not
\* taken yet.
InHandOff ==
    IF fwd_pc = "send" THEN <<fwd_frame>>
    ELSE IF fwd_pc = "sending" THEN mailbox
    ELSE <<>>

\* C26: with the stop token clear and the driver not failed, frames are only
\* ever appended to those put into the channel, and the n-th one put in is
\* the n-th one produced, rotated and inverted; they are, in order, the frames
\* the render loop has taken, then the one in hand-off, then the ones queued,
\* so none is dropped, repeated or reordered; the queue never holds more than
\* 64; and with 64 queued the producer stays in send with its frame until the
\* forwarder has taken one.
C26_FifoExactlyOnce ==
    /\ []((~stop_token /\ driver # "failed") =>
            /\ sent # <<>> => Last(sent) = Produced(Len(sent))
            /\ Len(sent) = IF main_pc = "send" THEN produced - 1 ELSE produced
            /\ sent = handed \o InHandOff \o queue
            /\ Len(queue) <= FORWARD_CAP)
    /\ [][sent' = sent \/ sent' = Append(sent, main_frame)]_vars
    /\ [][(main_pc = "send" /\ fwd_rx /\ Len(queue) = FORWARD_CAP) =>
            /\ main_pc' = "send"
            /\ main_frame' = main_frame
            /\ sent' = sent
            /\ queue' \in {queue, Tail(queue)}]_vars

\* C26 witness: the forwarder has taken the first frame, 64 frames are
\* queued, and the producer is in send with the 66th.
C26_Witness ==
    /\ main_pc = "send"
    /\ fwd_rx
    /\ fwd_pc = "sending"
    /\ Len(queue) = FORWARD_CAP
    /\ produced = FORWARD_CAP + 2
    /\ ~stop_token


\* C24: the Traveller's coordinates stay in 0..7 (no call of next() panics or
\* wraps), every call moves the head by exactly one unit along exactly one
\* axis, and the new head is never the cell the head was on one call earlier,
\* which the frame returned shows as three distinct lit cells.
Dist(a, b) ==
    LET abs(n) == IF n < 0 THEN 0 - n ELSE n
    IN  abs(a[1] - b[1]) + abs(a[2] - b[2]) + abs(a[3] - b[3])

C24_TravellerStaysInAndAhead ==
    trav_pc # "unused" =>
        LET last == <<last_x, last_y, last_z>>
            current == <<current_x, current_y, current_z>>
        IN  /\ trav_pc = "run"
            /\ \A i \in 1..3 : last[i] \in Idx /\ current[i] \in Idx
            /\ Dist(last, current) = 1
            /\ trav_before # <<>> =>
                  /\ Dist(trav_before, last) = 1
                  /\ current # trav_before
                  /\ Lit(trav_frame) =
                        {<<c[3], c[1], c[2]>> : c \in {trav_before, last, current}}
                  /\ Cardinality(Lit(trav_frame)) = 3

\* C24 witness: the head has reached the corner <<0, 0, 0>> along -x and turns
\* away from it along y or z.
C24_Witness ==
    /\ trav_pc = "run"
    /\ trav_before = <<1, 0, 0>>
    /\ <<last_x, last_y, last_z>> = <<0, 0, 0>>
    /\ <<current_x, current_y, current_z>> \in {<<0, 1, 0>>, <<0, 0, 1>>}

\* C22: the operations write_frame performs on the clock, latch, output-enable
\* and layer-select lines, with the levels written, the data lines written
\* and the sleeps, are in the same order in every call: the record of a call
\* is at every moment a prefix of the record of the call before it and equals
\* it when the call returns, whether the frame is another one or the same.
IsPrefix(a, b) == Len(a) <= Len(b) /\ SubSeq(b, 1, Len(a)) = a

C22_SameOperationsForEveryFrame ==
    cube_calls >= 2 =>
        /\ IsPrefix(ops, ops_prev)
        /\ cube_pc \in {"idle", "drop", "dropped"} => ops = ops_prev

\* C22 witness: a second call has returned, made on a frame that differs from
\* the first call's in every layer; the record holds the 8 strobe sleeps.
C22_Witness ==
    /\ cube_calls = 2
    /\ cube_pc = "idle"
    /\ data_prev = CountingFrame
    /\ cube_data = InvertFrame(CountingFrame)
    /\ ops = ops_prev
    /\ Cardinality({i \in DOMAIN ops : ops[i] = Sleep("LAYER_STROBE_SLEEP")}) = 8

\* C25: whenever the output is enabled after a first latch edge, the output
\* register holds the 8 rows, in the order shifted, of the layer that the
\* layer-select lines encode, taken from the frame of the call that made the
\* latch edge.
RowsOf(f, k) == [i \in 1..8 |-> f[k][i - 1]]

C25_LitLayerShowsItsRows ==
    (latch_frame # <<>> /\ cube_pins.out_enable = Low) =>
        out_reg = RowsOf(latch_frame, SelectedLayer(cube_pins))
====
